---- MODULE Spec2Model ----
(***************************************************************************)
(* The Kanban board of src/src/apps/KanbanApplication.jsx: the model       *)
(* classes KanbanModelItem, KanbanModelList and KanbanModel, the markdown  *)
(* reader and writer, and the KanbanApplication component's handlers.      *)
(*                                                                         *)
(* A JavaScript string is a sequence of one-character strings.  A value    *)
(* that may not be a string is a record [type, chars].  Array positions    *)
(* are the code's 0-based indices; Sequences are 1-based, so position i of *)
(* an array is element i + 1 of the sequence.                              *)
(***************************************************************************)
EXTENDS Integers, Sequences, FiniteSets, TLC

VARIABLES data, appContext, view, drag, onEditCalls, kanban, last

vars == <<data, appContext, view, drag, onEditCalls, kanban, last>>

----------------------------------------------------------------------------
(* JavaScript values *)

JsString(t) == [type |-> "string", chars |-> t]

JsUndefined == [type |-> "undefined", chars |-> <<>>]

JsNumber == [type |-> "number", chars |-> <<>>]

\* The value of an array position that holds nothing, arr[i] out of range.
Undefined == [undefined |-> TRUE]

Min2(a, b) == IF a <= b THEN a ELSE b

Max2(a, b) == IF a >= b THEN a ELSE b

\* Math.min without the cap of 3.
MathMin3_NoCap(a, b, c) == Min2(b, c)

MathMin3(a, b, c) == Min2(a, Min2(b, c))

SetMax(S) == CHOOSE x \in S : \A y \in S : y <= x

SetMin(S) == CHOOSE x \in S : \A y \in S : x <= y

\* arr[index]: undefined outside [0, length).
ArrayGet(arr, index) ==
  IF index >= 0 /\ index < Len(arr) THEN arr[index + 1] ELSE Undefined

\* Array.prototype.splice(start, deleteCount, ...ins): a negative start counts
\* from the end, a start past the end is the end, and deleteCount is clamped
\* to what is left.
ArraySplice(arr, start, deleteCount, ins) ==
  LET len == Len(arr)
      s == IF start < 0 THEN Max2(len + start, 0) ELSE Min2(start, len)
      dc == Min2(Max2(deleteCount, 0), len - s)
  IN SubSeq(arr, 1, s) \o ins \o SubSeq(arr, s + dc + 1, len)

RECURSIVE Repeat(_, _)
\* lodash repeat(string, n)
Repeat(c, n) == IF n <= 0 THEN <<>> ELSE <<c>> \o Repeat(c, n - 1)

RECURSIVE ArrayJoin(_, _)
\* Array.prototype.join(separator) on an array of strings
ArrayJoin(strs, sep) ==
  IF Len(strs) = 0 THEN <<>>
  ELSE IF Len(strs) = 1 THEN strs[1]
  ELSE strs[1] \o sep \o ArrayJoin(Tail(strs), sep)

RECURSIVE StringSplit(_, _)
\* String.prototype.split(separator) for a one-character separator: the
\* empty string splits into one empty piece.
StringSplit(s, sep) ==
  LET hits == {i \in 1..Len(s) : s[i] = sep}
  IN IF hits = {} THEN <<s>>
     ELSE LET i == SetMin(hits)
          IN <<SubSeq(s, 1, i - 1)>> \o StringSplit(SubSeq(s, i + 1, Len(s)), sep)

----------------------------------------------------------------------------
(* The three regular expressions of deserialize *)

\* \s, among the characters modelled
WhitespaceChars == {" ", "\r", "\n"}

\* what . does not match
LineTerminators == {"\n", "\r"}

\* [*-]
BulletChars == {"*", "-"}

\* [*_]
EmphasisChars == {"*", "_"}

NoMatch == [matched |-> FALSE, g1 |-> <<>>, g2 |-> <<>>, g3 |-> <<>>]

\* /^[*-]\s*(.*)$/ : k is the length \s* takes, greedy.
reList(l) ==
  LET n == Len(l)
      cands == {k \in 0..n :
                  /\ n >= 1 /\ l[1] \in BulletChars
                  /\ 1 + k <= n
                  /\ \A p \in 2..(1 + k) : l[p] \in WhitespaceChars
                  /\ \A p \in (2 + k)..n : l[p] \notin LineTerminators}
  IN IF cands = {} THEN NoMatch
     ELSE LET k == SetMax(cands)
          IN [matched |-> TRUE, g1 |-> SubSeq(l, 2 + k, n), g2 |-> <<>>, g3 |-> <<>>]

\* /^\s+[*-]\s*(.*)$/ : w is the length \s+ takes, k the length \s* takes,
\* both greedy.
reItem(l) ==
  LET n == Len(l)
      ks(w) == {k \in 0..(n - w - 1) :
                  /\ \A p \in (w + 2)..(w + 1 + k) : l[p] \in WhitespaceChars
                  /\ \A p \in (w + 2 + k)..n : l[p] \notin LineTerminators}
      ws == {w \in 1..(n - 1) :
               /\ \A p \in 1..w : l[p] \in WhitespaceChars
               /\ l[w + 1] \in BulletChars
               /\ ks(w) # {}}
  IN IF ws = {} THEN NoMatch
     ELSE LET w == SetMax(ws)
              k == SetMax(ks(w))
          IN [matched |-> TRUE, g1 |-> SubSeq(l, w + 2 + k, n), g2 |-> <<>>, g3 |-> <<>>]

\* /^([*_]*)(.*?)([*_]*)$/ : a is the length the first group takes (greedy),
\* b the length the second takes (lazy); the third takes the rest.
reText(t) ==
  LET n == Len(t)
      bs(a) == {b \in 0..(n - a) :
                  /\ \A p \in (a + 1)..(a + b) : t[p] \notin LineTerminators
                  /\ \A p \in (a + b + 1)..n : t[p] \in EmphasisChars}
      as == {a \in 0..n :
               /\ \A p \in 1..a : t[p] \in EmphasisChars
               /\ bs(a) # {}}
  IN IF as = {} THEN NoMatch
     ELSE LET a == SetMax(as)
              b == SetMin(bs(a))
          IN [matched |-> TRUE,
              g1 |-> SubSeq(t, 1, a),
              g2 |-> SubSeq(t, a + 1, a + b),
              g3 |-> SubSeq(t, a + b + 1, n)]

----------------------------------------------------------------------------
(* KanbanModelItem, KanbanModelList, KanbanModel *)

\* new KanbanModelItem(name, importance)
KanbanModelItem(name, importance) == [name |-> name, importance |-> importance]

\* new KanbanModelList(name)
KanbanModelList(name) == [name |-> name, items |-> <<>>]

\* new KanbanModel()
NewKanbanModel == [lists |-> <<>>]

\* What a method call leaves: the object, and whether it threw.
Returned(m) == [threw |-> FALSE, value |-> m]

Thrown(m) == [threw |-> TRUE, value |-> m]

\* KanbanModelItem.toMarkdown
ItemToMarkdown(item) ==
  LET emphasis == Repeat("*", item.importance)
  IN emphasis \o item.name \o emphasis

\* KanbanModelList.addItem
ListAddItem(list, text, importance) ==
  [list EXCEPT !.items = Append(@, KanbanModelItem(text, importance))]

\* insertItem as a push, the index ignored.
ListInsertItem_Push(list, index, item) ==
  [list EXCEPT !.items = Append(@, item)]

\* KanbanModelList.insertItem
ListInsertItem(list, index, item) ==
  [list EXCEPT !.items = ArraySplice(@, index, 0, <<item>>)]

\* KanbanModelList.getLength
ListGetLength(list) == Len(list.items)

\* KanbanModelList.getItemAt
ListGetItemAt(list, index) == ArrayGet(list.items, index)

\* KanbanModelList.removeItemAt
ListRemoveItemAt(list, index) ==
  [list EXCEPT !.items = ArraySplice(@, index, 1, <<>>)]

\* KanbanModelList.toMarkdown; the text, or a throw when an entry of items
\* is not an item (undefined.toMarkdown()).
ListToMarkdown(list) ==
  IF \E p \in 1..Len(list.items) : list.items[p] = Undefined
  THEN Thrown(<<>>)
  ELSE Returned(ArrayJoin(
         <<<<"*", " ">> \o list.name>> \o
           [p \in 1..Len(list.items) |->
              <<" ", " ", "*", " ">> \o ItemToMarkdown(list.items[p])],
         <<"\n">>))

\* KanbanModel.addList
AddList(model, str) ==
  [model EXCEPT !.lists = Append(@, KanbanModelList(str))]

\* KanbanModel.getLength
GetLength(model) == Len(model.lists)

\* KanbanModel.getListAt
GetListAt(model, index) == ArrayGet(model.lists, index)

\* KanbanModel.removeListAt
RemoveListAt(model, index) ==
  [model EXCEPT !.lists = ArraySplice(@, index, 1, <<>>)]

\* KanbanModel.insertList
InsertList(model, index, list) ==
  [model EXCEPT !.lists = ArraySplice(@, index, 0, <<list>>)]

\* model.getListAt(index) replaced by list (the methods of a list mutate the
\* object the model holds).
WithListAt(model, index, list) ==
  [model EXCEPT !.lists[index + 1] = list]

\* KanbanModel.serialize; throws when a list is undefined or holds a
\* non-item.
Serialize(model) ==
  IF \E p \in 1..Len(model.lists) : model.lists[p] = Undefined
  THEN Thrown(<<>>)
  ELSE LET blocks == [p \in 1..Len(model.lists) |-> ListToMarkdown(model.lists[p])]
       IN IF \E p \in 1..Len(blocks) : blocks[p].threw
          THEN Thrown(<<>>)
          ELSE Returned(ArrayJoin([p \in 1..Len(blocks) |-> blocks[p].value], <<"\n">>))

\* The callback adding every item to the first list.
DeserializeLine_FirstList(model, l) ==
  LET matchList == reList(l)
      matchItem == reItem(l)
      matchText == reText(matchItem.g1)
      importance == Min2(3, Min2(Len(matchText.g1), Len(matchText.g3)))
  IN IF matchList.matched THEN Returned(AddList(model, matchList.g1))
     ELSE IF ~matchItem.matched \/ GetLength(model) = 0 THEN Returned(model)
     ELSE Returned(WithListAt(model, 0,
            ListAddItem(GetListAt(model, 0), matchText.g2, importance)))

\* The callback of lines.forEach in deserialize, on the model so far.
DeserializeLine(model, l) ==
  LET matchList == reList(l)
      matchItem == reItem(l)
      listLength == GetLength(model)
      matchText == reText(matchItem.g1)
      empLeft == Len(matchText.g1)
      empRight == Len(matchText.g3)
      importance == MathMin3(3, empLeft, empRight)
  IN IF matchList.matched THEN Returned(AddList(model, matchList.g1))
     ELSE IF ~matchItem.matched THEN Returned(model)
     ELSE IF listLength = 0 THEN Returned(model)
     ELSE IF ~matchText.matched THEN Thrown(model)
     ELSE Returned(WithListAt(model, listLength - 1,
            ListAddItem(GetListAt(model, listLength - 1), matchText.g2, importance)))

RECURSIVE ForEachLine(_, _)
\* lines.forEach(...): stops at the first throw.
ForEachLine(model, lines) ==
  IF Len(lines) = 0 THEN Returned(model)
  ELSE LET r == DeserializeLine(model, lines[1])
       IN IF r.threw THEN r ELSE ForEachLine(r.value, Tail(lines))

\* The try block of deserialize: str.split throws when str is no string.
DeserializeTry(str) ==
  IF str.type # "string" THEN Thrown(NewKanbanModel)
  ELSE ForEachLine(NewKanbanModel, StringSplit(str.chars, "\n"))

\* deserialize without its catch.
DeserializeCall_NoCatch(str) == DeserializeTry(str)

\* KanbanModel.deserialize with its catch: what the caller gets.
DeserializeCall(str) ==
  LET r == DeserializeTry(str)
  IN IF r.threw THEN Returned(NewKanbanModel) ELSE r

\* KanbanModel.deserialize(str), the model returned.
Deserialize(str) == DeserializeCall(str).value

----------------------------------------------------------------------------
(* Inputs *)

MaxLineLen == 3

MaxEmphasis == 4

MaxLines == 4

\* The characters a line is made of: both bullets, both emphasis markers, a
\* space, a letter, and the carriage return a CRLF text leaves at the end of
\* each line once it is split on "\n".
LineChars == {"*", "-", "_", " ", "a", "\r"}

SeqsUpTo(S, n) == UNION {[1..k -> S] : k \in 0..n}

\* Every line of at most MaxLineLen characters.
ShortLines == SeqsUpTo(LineChars, MaxLineLen)

\* Item lines with up to MaxEmphasis markers on each side of a text.
EmphasisLines ==
  {<<" ", "*">> \o Repeat(m[1], ij[1]) \o body \o Repeat(m[2], ij[2]) :
     m \in EmphasisChars \X EmphasisChars,
     ij \in (0..MaxEmphasis) \X (0..MaxEmphasis),
     body \in {<<>>, <<"a">>, <<" ", "a">>}}

\* A few lines of each kind, for the texts of several lines.
PoolLines ==
  {<<"*", " ", "a">>, <<"-">>, <<" ", "*", "a">>, <<" ", "-", " ", "*", "*", "b", "*", "*">>,
   <<"a">>, <<>>}

JoinLines(lines) == ArrayJoin(lines, <<"\n">>)

\* The texts deserialize is given: one line alone, one line under a list
\* line, and up to MaxLines lines of the pool.
ParseTexts ==
  ShortLines
  \cup {JoinLines(<<<<"*", "a">>, l>>) : l \in ShortLines \cup EmphasisLines}
  \cup {JoinLines(ls) : ls \in SeqsUpTo(PoolLines, MaxLines)}

ParseInputs == {JsString(t) : t \in ParseTexts} \cup {JsUndefined, JsNumber}

NoDrag == [type |-> "none"]

----------------------------------------------------------------------------
(* The reader and writer alone: deserialize a text, serialize the model,    *)
(* deserialize what was written.                                            *)

\* An equality that looks at the names alone.
IsEqualItem_NameOnly(a, b) ==
  IF a = Undefined \/ b = Undefined THEN a = Undefined /\ b = Undefined
  ELSE a.name = b.name

\* lodash isEqual on two entries of an items array
IsEqualItem(a, b) ==
  IF a = Undefined \/ b = Undefined THEN a = Undefined /\ b = Undefined
  ELSE a.name = b.name /\ a.importance = b.importance

\* lodash isEqual on two entries of a lists array
IsEqualList(a, b) ==
  IF a = Undefined \/ b = Undefined THEN a = Undefined /\ b = Undefined
  ELSE /\ a.name = b.name
       /\ Len(a.items) = Len(b.items)
       /\ \A p \in 1..Len(a.items) : IsEqualItem(a.items[p], b.items[p])

\* KanbanModel.equals: lodash isEqual(this, other)
Equals(this, other) ==
  /\ Len(this.lists) = Len(other.lists)
  /\ \A p \in 1..Len(this.lists) : IsEqualList(this.lists[p], other.lists[p])

ParseInit ==
  /\ data \in ParseInputs
  /\ appContext = "ctxA"
  /\ view = NewKanbanModel
  /\ drag = NoDrag
  /\ onEditCalls = <<>>
  /\ kanban = NewKanbanModel
  /\ last = [op |-> "new"]

\* kanban = KanbanModel.deserialize(data)
ParseDeserialize ==
  /\ last.op \in {"new", "serialize"}
  /\ LET r == DeserializeCall(data)
     IN /\ kanban' = r.value
        /\ last' = [op |-> "deserialize", str |-> data, threw |-> r.threw,
                    prev |-> kanban, written |-> last.op = "serialize"]
  /\ UNCHANGED <<data, appContext, view, drag, onEditCalls>>

\* data = kanban.serialize()
ParseSerialize ==
  /\ last.op = "deserialize"
  /\ LET r == Serialize(kanban)
     IN /\ ~r.threw
        /\ data' = JsString(r.value)
        /\ last' = [op |-> "serialize", str |-> last.str]
  /\ UNCHANGED <<appContext, view, drag, onEditCalls, kanban>>

ParseNext == ParseDeserialize \/ ParseSerialize

SpecParse == ParseInit /\ [][ParseNext]_vars

----------------------------------------------------------------------------
(* What the claims say of a text, read off its lines *)

\* The lines of the text last given to deserialize.
LinesOf(str) == StringSplit(str.chars, "\n")

\* The number of whitespace characters a text starts with.
LeadingWhitespace(t) ==
  SetMax({w \in 0..Len(t) : \A p \in 1..w : t[p] \in WhitespaceChars})

\* The number of emphasis markers a text starts with.
LeadingMarkers(t) ==
  SetMax({a \in 0..Len(t) : \A p \in 1..a : t[p] \in EmphasisChars})

\* The number of emphasis markers a text ends with, the leading markers apart.
TrailingMarkers(t) ==
  SetMax({c \in 0..(Len(t) - LeadingMarkers(t)) :
            \A p \in (Len(t) - c + 1)..Len(t) : t[p] \in EmphasisChars})

\* A bullet in column 0.
StartsWithBullet(l) == Len(l) >= 1 /\ l[1] \in BulletChars

\* A bullet after some indentation.
IsIndentedBullet(l) ==
  /\ LeadingWhitespace(l) >= 1
  /\ LeadingWhitespace(l) < Len(l)
  /\ l[LeadingWhitespace(l) + 1] \in BulletChars

\* The text of a bullet line: what follows the bullet at position b and the
\* whitespace after it.
TextAfterBullet(l, b) ==
  LET rest == SubSeq(l, b + 1, Len(l))
  IN SubSeq(rest, LeadingWhitespace(rest) + 1, Len(rest))

\* The text of an indented bullet line.
ItemText(l) == TextAfterBullet(l, LeadingWhitespace(l) + 1)

HoldsLineTerminator(t) == \E p \in 1..Len(t) : t[p] \in LineTerminators

\* A column-0 bullet line whose text holds no carriage return.
IsListLine(l) == StartsWithBullet(l) /\ ~HoldsLineTerminator(TextAfterBullet(l, 1))

\* An indented bullet line whose text holds no carriage return.
IsItemLine(l) == IsIndentedBullet(l) /\ ~HoldsLineTerminator(ItemText(l))

\* The p-th smallest member of a set of numbers.
NthOf(S, p) == CHOOSE x \in S : Cardinality({y \in S : y < x}) = p - 1

\* The board is the one a forward pass builds when the lines at ListAt start
\* lists and the lines at ItemAt add items to the list started last: the
\* p-th list is named by the p-th list line, and its items are, in order,
\* the item lines between that line and the next list line.
BuiltInOrder(model, lines, ListAt, ItemAt) ==
  /\ Len(model.lists) = Cardinality(ListAt)
  /\ \A p \in 1..Cardinality(ListAt) :
       LET from == NthOf(ListAt, p)
           to == IF p < Cardinality(ListAt) THEN NthOf(ListAt, p + 1) ELSE Len(lines) + 1
           mine == {i \in ItemAt : from < i /\ i < to}
           list == model.lists[p]
       IN /\ list.name = TextAfterBullet(lines[from], 1)
          /\ Len(list.items) = Cardinality(mine)
          /\ \A q \in 1..Cardinality(mine) :
               list.items[q].name = reText(ItemText(lines[NthOf(mine, q)])).g2

\* The item lines of the text that follow some list line, in order.
ItemLinesOf(lines) ==
  LET at == {i \in 1..Len(lines) :
               /\ IsItemLine(lines[i])
               /\ \E j \in 1..(i - 1) : IsListLine(lines[j])}
  IN [q \in 1..Cardinality(at) |-> lines[NthOf(at, q)]]

RECURSIVE FlattenItems(_)
\* The items of a board, list after list.
FlattenItems(lists) ==
  IF Len(lists) = 0 THEN <<>> ELSE Head(lists).items \o FlattenItems(Tail(lists))

Parsed == last.op = "deserialize" /\ last.str.type = "string"

----------------------------------------------------------------------------
(* Claims on the reader and writer *)

\* C1: a board returned by deserialize, serialized and deserialized again,
\* equals itself.
C1_RoundTrip ==
  (last.op = "deserialize" /\ last.written) => Equals(kanban, last.prev)

\* C4 as stated: every line starting with a bullet in column 0 appends a
\* list, every indented bullet line appends an item to the list added last,
\* every other line is ignored; lists and items are in input order.
C4_EveryBulletLine ==
  Parsed =>
    LET lines == LinesOf(last.str)
    IN BuiltInOrder(kanban, lines,
         {i \in 1..Len(lines) : StartsWithBullet(lines[i])},
         {i \in 1..Len(lines) : IsIndentedBullet(lines[i])})

\* C4, amended: the bullet lines that count are those whose text (what
\* follows the bullet and its whitespace) holds no carriage return; each such
\* column-0 line appends a list, each such indented line appends an item to
\* the list added last, every other line is ignored, lists and items are in
\* input order, and a text with no column-0 bullet line gives an empty board.
C4_ForwardPass ==
  Parsed =>
    LET lines == LinesOf(last.str)
    IN /\ BuiltInOrder(kanban, lines,
            {i \in 1..Len(lines) : IsListLine(lines[i])},
            {i \in 1..Len(lines) : IsItemLine(lines[i])})
       /\ (\A i \in 1..Len(lines) : ~StartsWithBullet(lines[i])) => GetLength(kanban) = 0

\* C4's case: two lists, an item under the first, and a line that is ignored.
C4_Witness ==
  /\ Parsed
  /\ GetLength(kanban) = 2
  /\ Len(kanban.lists[1].items) = 1
  /\ Len(LinesOf(last.str)) = 4

C9_NeverThrows ==
  last.op = "deserialize" =>
    /\ ~last.threw
    /\ (last.str.type # "string" => kanban = NewKanbanModel /\ GetLength(kanban) = 0)

\* C9's case: deserialize was given a value that is no string.
C9_Witness ==
  /\ last.op = "deserialize"
  /\ last.str.type = "undefined"
  /\ GetLength(kanban) = 0

----------------------------------------------------------------------------
(* The methods of KanbanModel, called on a board that deserialize returned  *)

MaxBoardLines == 4

MaxOtherLines == 2

MaxIndex == 2

\* The lines the boards are written with: two list lines and three item
\* lines, two of them differing in importance alone.
BoardLines ==
  {<<"*", "a">>, <<"-">>, <<" ", "*", "a">>, <<" ", "*", "*", "a", "*">>, <<" ", "*", "c">>}

BoardsOf(n) == {Deserialize(JsString(JoinLines(ls))) : ls \in SeqsUpTo(BoardLines, n)}

\* The positions a caller may name, in range or not.
Indexes == (-1)..MaxIndex

\* moveItem with the insertion made before the removal.
MoveItemCall_InsertFirst(model, fromListIndex, fromItemIndex, toListIndex, toItemIndex) ==
  LET fromList == GetListAt(model, fromListIndex)
      item == ListGetItemAt(fromList, fromItemIndex)
      toList == GetListAt(model, toListIndex)
      m1 == WithListAt(model, toListIndex, ListInsertItem(toList, toItemIndex, item))
  IN IF fromList = Undefined \/ toList = Undefined THEN Thrown(model)
     ELSE Returned(WithListAt(m1, fromListIndex,
            ListRemoveItemAt(GetListAt(m1, fromListIndex), fromItemIndex)))

\* KanbanModel.moveItem: throws where it calls a method of a list that does
\* not exist, the board left as it is at that point.
MoveItemCall(model, fromListIndex, fromItemIndex, toListIndex, toItemIndex) ==
  LET fromList == GetListAt(model, fromListIndex)
      item == ListGetItemAt(fromList, fromItemIndex)
      m1 == WithListAt(model, fromListIndex, ListRemoveItemAt(fromList, fromItemIndex))
      toList == GetListAt(m1, toListIndex)
  IN IF fromList = Undefined THEN Thrown(model)
     ELSE IF toList = Undefined THEN Thrown(m1)
     ELSE Returned(WithListAt(m1, toListIndex, ListInsertItem(toList, toItemIndex, item)))

\* KanbanModel.moveList
MoveListCall(model, fromListIndex, toListIndex) ==
  LET fromList == GetListAt(model, fromListIndex)
  IN Returned(InsertList(RemoveListAt(model, fromListIndex), toListIndex, fromList))

\* model.getListAt(listIndex).removeItemAt(itemIndex)
RemoveItemCall(model, listIndex, itemIndex) ==
  LET list == GetListAt(model, listIndex)
  IN IF list = Undefined THEN Thrown(model)
     ELSE Returned(WithListAt(model, listIndex, ListRemoveItemAt(list, itemIndex)))

\* model.getListAt(listIndex).addItem(text)
AddItemCall(model, listIndex, text) ==
  LET list == GetListAt(model, listIndex)
  IN IF list = Undefined THEN Thrown(model)
     ELSE Returned(WithListAt(model, listIndex, ListAddItem(list, text, 0)))

ModelInit ==
  /\ data = JsString(<<>>)
  /\ appContext = "ctxA"
  /\ view = NewKanbanModel
  /\ drag = NoDrag
  /\ onEditCalls = <<>>
  /\ kanban \in BoardsOf(MaxBoardLines)
  /\ last = [op |-> "new"]

\* What a call leaves behind: the board, and in last the call made.
Called(op, args, r) ==
  /\ kanban' = r.value
  /\ last' = [op |-> op, args |-> args, prev |-> kanban, threw |-> r.threw]
  /\ UNCHANGED <<data, appContext, view, drag, onEditCalls>>

ModelMoveItem ==
  /\ last.op = "new"
  /\ \E fl \in Indexes, fi \in Indexes, tl \in Indexes, ti \in Indexes :
        Called("moveItem", <<fl, fi, tl, ti>>, MoveItemCall(kanban, fl, fi, tl, ti))

ModelMoveList ==
  /\ last.op = "new"
  /\ \E f \in Indexes, t \in Indexes :
        Called("moveList", <<f, t>>, MoveListCall(kanban, f, t))

ModelRemoveListAt ==
  /\ last.op = "new"
  /\ \E i \in Indexes : Called("removeListAt", <<i>>, Returned(RemoveListAt(kanban, i)))

ModelRemoveItemAt ==
  /\ last.op = "new"
  /\ \E l \in Indexes, i \in Indexes :
        Called("removeItemAt", <<l, i>>, RemoveItemCall(kanban, l, i))

ModelAddList ==
  /\ last.op = "new"
  /\ \E name \in {<<"b">>, <<>>} : Called("addList", <<name>>, Returned(AddList(kanban, name)))

ModelAddItem ==
  /\ last.op = "new"
  /\ \E l \in Indexes, text \in {<<"b">>} :
        Called("addItem", <<l, text>>, AddItemCall(kanban, l, text))

\* this.equals(other)
ModelEquals ==
  /\ last.op = "new"
  /\ \E other \in BoardsOf(MaxOtherLines) :
        /\ last' = [op |-> "equals", other |-> other, result |-> Equals(kanban, other)]
        /\ UNCHANGED <<data, appContext, view, drag, onEditCalls, kanban>>

ModelNext ==
  \/ ModelMoveItem
  \/ ModelMoveList
  \/ ModelRemoveListAt
  \/ ModelRemoveItemAt
  \/ ModelAddList
  \/ ModelAddItem
  \/ ModelEquals

SpecModel == ModelInit /\ [][ModelNext]_vars

----------------------------------------------------------------------------
(* Claims on the methods of KanbanModel *)

\* A sequence without its p-th element.
RemoveAt(seq, p) ==
  [q \in 1..(Len(seq) - 1) |-> IF q < p THEN seq[q] ELSE seq[q + 1]]

\* A sequence with x as its new p-th element.
InsertAt(seq, p, x) ==
  [q \in 1..(Len(seq) + 1) |-> IF q < p THEN seq[q] ELSE IF q = p THEN x ELSE seq[q - 1]]

\* Position i exists in an array.
InRange(i, arr) == 0 <= i /\ i < Len(arr)

\* The items of list l of a board.
ItemsOf(model, l) == model.lists[l + 1].items

\* C2: moveItem(l, i, l, j) with i and j in range of the list after removal
\* leaves the moved item at position j, the length as it was, and the other
\* items in their order.
C2_MoveWithinList ==
  (/\ last.op = "moveItem"
   /\ last.args[1] = last.args[3]
   /\ InRange(last.args[1], last.prev.lists)
   /\ InRange(last.args[2], ItemsOf(last.prev, last.args[1]))
   /\ 0 <= last.args[4]
   /\ last.args[4] <= Len(ItemsOf(last.prev, last.args[1])) - 1)
  => LET before == ItemsOf(last.prev, last.args[1])
         after == ItemsOf(kanban, last.args[1])
         i == last.args[2]
         j == last.args[4]
     IN /\ ~last.threw
        /\ Len(after) = Len(before)
        /\ after[j + 1] = before[i + 1]
        /\ RemoveAt(after, j + 1) = RemoveAt(before, i + 1)

\* C2's case: [A, B, C] and moveItem(0, 0, 0, 2) give [B, C, A].
C2_Witness ==
  /\ last.op = "moveItem"
  /\ last.args = <<0, 0, 0, 2>>
  /\ Len(last.prev.lists) = 1
  /\ Len(ItemsOf(last.prev, 0)) = 3
  /\ Cardinality({ItemsOf(last.prev, 0)[q] : q \in 1..3}) = 3
  /\ ItemsOf(kanban, 0) =
       <<ItemsOf(last.prev, 0)[2], ItemsOf(last.prev, 0)[3], ItemsOf(last.prev, 0)[1]>>

\* C3: moveItem(s, i, d, j) between two lists takes position i out of list s,
\* puts that item at position j of list d, and leaves every other list, every
\* name and the order of the lists as they were.
C3_MoveAcrossLists ==
  (/\ last.op = "moveItem"
   /\ last.args[1] # last.args[3]
   /\ InRange(last.args[1], last.prev.lists)
   /\ InRange(last.args[3], last.prev.lists)
   /\ InRange(last.args[2], ItemsOf(last.prev, last.args[1]))
   /\ 0 <= last.args[4]
   /\ last.args[4] <= Len(ItemsOf(last.prev, last.args[3])))
  => LET s == last.args[1]
         i == last.args[2]
         d == last.args[3]
         j == last.args[4]
     IN /\ ~last.threw
        /\ Len(kanban.lists) = Len(last.prev.lists)
        /\ \A p \in 1..Len(kanban.lists) :
             /\ kanban.lists[p].name = last.prev.lists[p].name
             /\ kanban.lists[p].items =
                  IF p = s + 1 THEN RemoveAt(ItemsOf(last.prev, s), i + 1)
                  ELSE IF p = d + 1
                       THEN InsertAt(ItemsOf(last.prev, d), j + 1, ItemsOf(last.prev, s)[i + 1])
                       ELSE last.prev.lists[p].items

\* C3's case: List0 = [A], List1 = [] and a third list; moveItem(0, 0, 1, 0)
\* gives List0 = [], List1 = [A].
C3_Witness ==
  /\ last.op = "moveItem"
  /\ last.args = <<0, 0, 1, 0>>
  /\ Len(last.prev.lists) = 3
  /\ Len(ItemsOf(last.prev, 0)) = 1
  /\ ItemsOf(last.prev, 1) = <<>>
  /\ ItemsOf(kanban, 0) = <<>>
  /\ ItemsOf(kanban, 1) = ItemsOf(last.prev, 0)

\* The call named a list or an item that does not exist.
NamesNoSuchPosition ==
  \/ /\ last.op = "moveItem"
     /\ \/ ~InRange(last.args[1], last.prev.lists)
        \/ ~InRange(last.args[3], last.prev.lists)
        \/ ~InRange(last.args[2], ItemsOf(last.prev, last.args[1]))
  \/ /\ last.op = "moveList"
     /\ ~InRange(last.args[1], last.prev.lists)
  \/ /\ last.op = "removeListAt"
     /\ ~InRange(last.args[1], last.prev.lists)
  \/ /\ last.op = "removeItemAt"
     /\ \/ ~InRange(last.args[1], last.prev.lists)
        \/ ~InRange(last.args[2], ItemsOf(last.prev, last.args[1]))

\* C6: a call naming a position that does not exist never returns normally
\* with the board changed.
C6_FailFast ==
  (NamesNoSuchPosition /\ ~last.threw) => kanban = last.prev

\* C8: equals is true exactly when the boards have as many lists and,
\* position by position, the same list name and the same items by name and
\* importance; [X, Y] and [Y, X] with X # Y are not equal.
C8_DeepOrderedEquality ==
  last.op = "equals" =>
    LET a == kanban.lists
        b == last.other.lists
    IN /\ last.result <=>
            /\ Len(a) = Len(b)
            /\ \A p \in 1..Len(a) :
                 /\ a[p].name = b[p].name
                 /\ Len(a[p].items) = Len(b[p].items)
                 /\ \A q \in 1..Len(a[p].items) :
                      /\ a[p].items[q].name = b[p].items[q].name
                      /\ a[p].items[q].importance = b[p].items[q].importance
       /\ (Len(a) = 2 /\ a[1] # a[2] /\ b = <<a[2], a[1]>>) => ~last.result

\* C8's case: [X, Y] compared with [Y, X].
C8_Witness ==
  /\ last.op = "equals"
  /\ Len(kanban.lists) = 2
  /\ kanban.lists[1] # kanban.lists[2]
  /\ last.other.lists = <<kanban.lists[2], kanban.lists[1]>>
  /\ ~last.result

----------------------------------------------------------------------------
(* The KanbanApplication component: props data, onEdit and appContext, the   *)
(* model render() shows, the drag in progress, and the six handlers.         *)

MaxAppLines == 3

\* The lines the host's texts are written with.
AppLines == {<<"*", "a">>, <<" ", "*", "a">>, <<" ", "*", "*", "b", "*">>}

\* What the host may pass as the data prop.
AppInputs ==
  {JsString(JoinLines(ls)) : ls \in SeqsUpTo(AppLines, MaxAppLines)} \cup {JsUndefined}

\* The values of the opaque appContext prop.
AppContexts == {"ctxA", "ctxB"}

\* The texts an edit made elsewhere may leave: the empty text, and two lists
\* of one item each.
HostTexts ==
  {JsString(JoinLines(ls)) :
     ls \in {<<>>,
             <<<<"*", "a">>, <<" ", "*", "a">>, <<"-">>, <<" ", "*", "*", "b", "*">>>>}}

\* What the user may have typed in a text box.
InputTexts == {<<>>, <<"*", "b", "*">>}

\* An earlier Board kept in place of a fresh one.
NewKanban_Retained == IF last.op = "new" THEN Deserialize(data) ELSE kanban

\* updateKanban: const newKanban = KanbanModel.deserialize(data)
NewKanban == Deserialize(data)

\* A handler that returned without calling updateKanban.
NoEdit == [calls |-> <<>>, kanban |-> NewKanbanModel, threw |-> FALSE]

\* updateKanban after updator(newKanban) left r: onEdit(newKanban.serialize(),
\* appContext), unless the updator or serialize threw.
OnEdit(r) ==
  LET text == Serialize(r.value)
  IN IF r.threw \/ text.threw
     THEN [calls |-> <<>>, kanban |-> r.value, threw |-> TRUE]
     ELSE [calls |-> <<[newData |-> JsString(text.value), appContext |-> appContext]>>,
           kanban |-> r.value, threw |-> FALSE]

\* KanbanApplication.shouldComponentUpdate
ShouldComponentUpdate(nextData) ==
  IF data = nextData THEN FALSE
  ELSE ~Equals(Deserialize(data), Deserialize(nextData))

\* KanbanApplication.handleAddItem, the text box of list index holding text
HandleAddItem(index, text) ==
  IF text = <<>> THEN NoEdit
  ELSE OnEdit(AddItemCall(NewKanban, index, text))

\* KanbanApplication.handleAddList
HandleAddList(text) ==
  IF text = <<>> THEN NoEdit
  ELSE OnEdit(Returned(AddList(NewKanban, text)))

\* KanbanApplication.handleRemoveList
HandleRemoveList(listIndex) == OnEdit(Returned(RemoveListAt(NewKanban, listIndex)))

\* KanbanApplication.handleRemoveItem
HandleRemoveItem(itemId) == OnEdit(RemoveItemCall(NewKanban, itemId.list, itemId.item))

\* handleMoveItem passing the target index on as it is.
HandleMoveItem_AsGiven(sourceId, targetId) ==
  OnEdit(MoveItemCall(NewKanban, sourceId.list, sourceId.item, targetId.list, targetId.item))

\* KanbanApplication.handleMoveItem
HandleMoveItem(sourceId, targetId) ==
  LET model == Deserialize(data)
      targetList == GetListAt(model, targetId.list)
      targetItemIndex ==
        IF targetId.item < 0 THEN ListGetLength(targetList) ELSE targetId.item
  IN IF targetId.item < 0 /\ targetList = Undefined
     THEN [calls |-> <<>>, kanban |-> NewKanbanModel, threw |-> TRUE]
     ELSE OnEdit(MoveItemCall(NewKanban, sourceId.list, sourceId.item,
                              targetId.list, targetItemIndex))

\* KanbanApplication.handleMoveList
HandleMoveList(sourceId, targetId) == OnEdit(MoveListCall(NewKanban, sourceId, targetId))

\* The cards render() shows: itemId {list, item} of each KanbanCardDraggable.
Cards ==
  {[list |-> l, item |-> i] : l \in 0..(Len(view.lists) - 1), i \in 0..MaxAppLines} \cap
  {id \in [list : 0..(Len(view.lists) - 1), item : 0..MaxAppLines] :
     id.item < Len(view.lists[id.list + 1].items)}

\* The lists render() shows: listIndex of each KanbanListDraggable.
Lists == 0..(Len(view.lists) - 1)

Init ==
  /\ data \in AppInputs
  /\ appContext \in AppContexts
  /\ view = Deserialize(data)
  /\ drag = NoDrag
  /\ onEditCalls = <<>>
  /\ kanban = NewKanbanModel
  /\ last = [op |-> "new"]

\* A handler ran: what it called, the Board it worked on, and in last the
\* handler and its arguments.
Handled(op, args, out) ==
  /\ onEditCalls' = out.calls
  /\ kanban' = out.kanban
  /\ last' = [op |-> op, args |-> args, threw |-> out.threw]
  /\ drag' = NoDrag
  /\ UNCHANGED <<data, appContext, view>>

\* onEditCalls, kanban and last record the handler that ran last; they are
\* cleared when the next drag begins or the host passes new data.
NewGesture ==
  /\ onEditCalls' = <<>>
  /\ kanban' = NewKanbanModel
  /\ last' = [op |-> "new"]

\* The host passes new data: shouldComponentUpdate, then render() if it says so.
Rerender(nextData) ==
  /\ data' = nextData
  /\ view' = IF ShouldComponentUpdate(nextData) THEN Deserialize(nextData) ELSE view
  /\ NewGesture
  /\ UNCHANGED <<appContext, drag>>

\* The host replaces the text (an edit made elsewhere).
HostSetData ==
  \E nextData \in HostTexts : nextData # data /\ Rerender(nextData)

\* The host passes back the text it was handed through onEdit (texts of at
\* most MaxAppLines lines, which bounds the growth of the text).
HostApplyEdit ==
  /\ Len(onEditCalls) = 1
  /\ Len(StringSplit(onEditCalls[1].newData.chars, "\n")) <= MaxAppLines
  /\ Rerender(onEditCalls[1].newData)

\* cardSource.beginDrag
BeginDragCard ==
  /\ drag = NoDrag
  /\ \E id \in Cards : drag' = [type |-> "card", itemId |-> id]
  /\ NewGesture
  /\ UNCHANGED <<data, appContext, view>>

\* listSource.beginDrag
BeginDragList ==
  /\ drag = NoDrag
  /\ \E l \in Lists : drag' = [type |-> "list", listIndex |-> l]
  /\ NewGesture
  /\ UNCHANGED <<data, appContext, view>>

\* cardTarget.drop: a card dropped on another card
DropCardOnCard ==
  /\ drag.type = "card"
  /\ \E id \in Cards :
       /\ id # drag.itemId
       /\ Handled("handleMoveItem", <<drag.itemId, id>>, HandleMoveItem(drag.itemId, id))

\* listCardTarget.drop: a card dropped on a list, outside of its cards
DropCardOnList ==
  /\ drag.type = "card"
  /\ \E l \in Lists :
       Handled("handleMoveItem", <<drag.itemId, [list |-> l, item |-> -1]>>,
               HandleMoveItem(drag.itemId, [list |-> l, item |-> -1]))

\* trashCardTarget.drop
DropCardOnTrash ==
  /\ drag.type = "card"
  /\ Handled("handleRemoveItem", <<drag.itemId>>, HandleRemoveItem(drag.itemId))

\* listTarget.drop: a list dropped on another list
DropListOnList ==
  /\ drag.type = "list"
  /\ \E l \in Lists :
       /\ l # drag.listIndex
       /\ Handled("handleMoveList", <<drag.listIndex, l>>, HandleMoveList(drag.listIndex, l))

\* trashListTarget.drop
DropListOnTrash ==
  /\ drag.type = "list"
  /\ Handled("handleRemoveList", <<drag.listIndex>>, HandleRemoveList(drag.listIndex))

\* The Add button of a list's row
ClickAddItem ==
  /\ drag = NoDrag
  /\ \E index \in Lists, text \in InputTexts :
       Handled("handleAddItem", <<index, text>>, HandleAddItem(index, text))

\* The Add list button
ClickAddList ==
  /\ drag = NoDrag
  /\ \E text \in InputTexts : Handled("handleAddList", <<text>>, HandleAddList(text))

Next ==
  \/ HostSetData
  \/ HostApplyEdit
  \/ BeginDragCard
  \/ BeginDragList
  \/ DropCardOnCard
  \/ DropCardOnList
  \/ DropCardOnTrash
  \/ DropListOnList
  \/ DropListOnTrash
  \/ ClickAddItem
  \/ ClickAddList

Spec == Init /\ [][Next]_vars

\* ---------------------------------------------------------------------------
\* Claims about the application's handlers
\* ---------------------------------------------------------------------------

\* The handlers that edit.
HandlerOps ==
  {"handleAddItem", "handleAddList", "handleRemoveList", "handleRemoveItem",
   "handleMoveItem", "handleMoveList"}

\* The handler that ran last had something to edit: a text box that is empty
\* makes handleAddItem and handleAddList return at once.
Mutates ==
  /\ last.op \in HandlerOps
  /\ last.op = "handleAddItem" => last.args[2] # <<>>
  /\ last.op = "handleAddList" => last.args[1] # <<>>

\* The Board the current data prop holds.
Fresh == Deserialize(data)

\* An item position {list, item} exists in the current data.
NamesItem(id) ==
  /\ InRange(id.list, Fresh.lists)
  /\ InRange(id.item, ItemsOf(Fresh, id.list))

\* The positions the last handler was called with exist in the current data.
NamesPositions ==
  CASE last.op = "handleAddItem" -> InRange(last.args[1], Fresh.lists)
    [] last.op = "handleAddList" -> TRUE
    [] last.op = "handleRemoveList" -> InRange(last.args[1], Fresh.lists)
    [] last.op = "handleRemoveItem" -> NamesItem(last.args[1])
    [] last.op = "handleMoveItem" ->
         /\ NamesItem(last.args[1])
         /\ InRange(last.args[2].list, Fresh.lists)
         /\ last.args[2].item <= Len(ItemsOf(Fresh, last.args[2].list))
    [] last.op = "handleMoveList" ->
         /\ InRange(last.args[1], Fresh.lists)
         /\ InRange(last.args[2], Fresh.lists)

\* A board with other items in list l.
WithItems(model, l, items) == [model EXCEPT !.lists[l + 1].items = items]

\* What the last handler's edit makes of the Board in the current data.
Edited ==
  CASE last.op = "handleAddItem" ->
         WithItems(Fresh, last.args[1],
                   Append(ItemsOf(Fresh, last.args[1]), [name |-> last.args[2], importance |-> 0]))
    [] last.op = "handleAddList" ->
         [lists |-> Append(Fresh.lists, [name |-> last.args[1], items |-> <<>>])]
    [] last.op = "handleRemoveList" ->
         [lists |-> RemoveAt(Fresh.lists, last.args[1] + 1)]
    [] last.op = "handleRemoveItem" ->
         WithItems(Fresh, last.args[1].list,
                   RemoveAt(ItemsOf(Fresh, last.args[1].list), last.args[1].item + 1))
    [] last.op = "handleMoveItem" ->
         LET s == last.args[1]
             t == last.args[2]
             item == ItemsOf(Fresh, s.list)[s.item + 1]
             removed == WithItems(Fresh, s.list, RemoveAt(ItemsOf(Fresh, s.list), s.item + 1))
             asked == IF t.item < 0 THEN Len(ItemsOf(Fresh, t.list)) ELSE t.item
             at == Min2(asked, Len(ItemsOf(removed, t.list)))
         IN WithItems(removed, t.list, InsertAt(ItemsOf(removed, t.list), at + 1, item))
    [] last.op = "handleMoveList" ->
         LET removed == RemoveAt(Fresh.lists, last.args[1] + 1)
         IN [lists |-> InsertAt(removed, Min2(last.args[2], Len(removed)) + 1,
                                Fresh.lists[last.args[1] + 1])]

\* onEdit was called once, with the serialization of the edited fresh Board
\* and the appContext prop.
OneFreshEdit ==
  /\ Len(onEditCalls) = 1
  /\ onEditCalls[1].appContext = appContext
  /\ NamesPositions => onEditCalls[1].newData = JsString(Serialize(Edited).value)

\* C7 as stated: every edit handled by the application (add item, add list,
\* remove item, remove list, move item, move list) calls onEdit exactly once,
\* with the serialization of a Board freshly deserialized from the data prop
\* and then mutated, and with the appContext prop.
C7_ExactlyOnce == Mutates => OneFreshEdit

\* C7 amended: a handler calls onEdit at most once; an edit whose positions
\* name lists and items of the current data calls it exactly once, with the
\* serialization of the Board freshly deserialized from the data prop and then
\* mutated, and with the appContext prop; an edit that calls it not at all
\* threw on a position that names no list or item of the current data.
C7_FreshEditOnce ==
  last.op \in HandlerOps =>
    /\ Len(onEditCalls) <= 1
    /\ ~Mutates => onEditCalls = <<>>
    /\ (Mutates /\ NamesPositions) => (~last.threw /\ OneFreshEdit)
    /\ (Mutates /\ onEditCalls # <<>>) => (~last.threw /\ OneFreshEdit)
    /\ (Mutates /\ onEditCalls = <<>>) => (last.threw /\ ~NamesPositions)

\* C7's case: an Add click on list 0 of two lists, under context ctxB, calls
\* onEdit once with ctxB and the text of the data's Board with one more item,
\* named as typed, at the end of list 0.
C7_Witness ==
  /\ last.op = "handleAddItem"
  /\ last.args = <<0, <<"*", "b", "*">>>>
  /\ appContext = "ctxB"
  /\ Len(Fresh.lists) = 2
  /\ Len(ItemsOf(Fresh, 0)) = 1
  /\ Len(onEditCalls) = 1
  /\ onEditCalls[1].appContext = "ctxB"
  /\ onEditCalls[1].newData = JsString(Serialize(kanban).value)
  /\ ItemsOf(kanban, 0) =
       Append(ItemsOf(Fresh, 0), [name |-> <<"*", "b", "*">>, importance |-> 0])
  /\ ItemsOf(kanban, 1) = ItemsOf(Fresh, 1)

\* C10: a card dropped on a list outside of any card (target item -1) ends as
\* the last item of the target list in the emitted Board, when the target list
\* is another list (which gains one item) and when it is the card's own list
\* (which keeps its length).
C10_DropOnListMovesToLast ==
  (/\ last.op = "handleMoveItem"
   /\ last.args[2].item = -1
   /\ NamesItem(last.args[1]))
  => LET s == last.args[1]
         d == last.args[2].list
         before == ItemsOf(Fresh, d)
         after == ItemsOf(kanban, d)
     IN /\ ~last.threw
        /\ Len(onEditCalls) = 1
        /\ onEditCalls[1].newData = JsString(Serialize(kanban).value)
        /\ Len(after) = IF d = s.list THEN Len(before) ELSE Len(before) + 1
        /\ after[Len(after)] = ItemsOf(Fresh, s.list)[s.item + 1]
        /\ \A q \in 1..(Len(after) - 1) :
             after[q] = IF d = s.list THEN RemoveAt(before, s.item + 1)[q] ELSE before[q]

\* C10's case: the first of two different cards of a list dropped on that
\* list, outside of its cards, ends last: [A, B] becomes [B, A].
C10_Witness ==
  /\ last.op = "handleMoveItem"
  /\ last.args = <<[list |-> 0, item |-> 0], [list |-> 0, item |-> -1]>>
  /\ Len(Fresh.lists) >= 1
  /\ Len(ItemsOf(Fresh, 0)) = 2
  /\ ItemsOf(Fresh, 0)[1] # ItemsOf(Fresh, 0)[2]
  /\ Len(onEditCalls) = 1
  /\ ItemsOf(kanban, 0) = <<ItemsOf(Fresh, 0)[2], ItemsOf(Fresh, 0)[1]>>

\* C11: the text an edit hands to onEdit parses back to the Board that was
\* edited: with k the Board after the mutation inside updateKanban,
\* deserialize(k.serialize()).equals(k), so an item added with text t shows
\* with name t and importance 0 at the host's next deserialize.
C11_EditReparses ==
  (Mutates /\ ~last.threw /\ Len(onEditCalls) = 1)
  => /\ onEditCalls[1].newData = JsString(Serialize(kanban).value)
     /\ Equals(Deserialize(onEditCalls[1].newData), kanban)

====
